---- MODULE Spec2Model ----
(***************************************************************************)
(* A model of the Wave Terminal MCP server (mcp-servers/terminal-mcp.py)   *)
(* and of the MCP status checker (scripts/check_mcp_servers.py).           *)
(*                                                                         *)
(*   Spec         the HTTP handler MCPHandler.do_POST together with        *)
(*                TerminalMCPServer.execute_command and the subprocess it  *)
(*                runs (launch, wait with a 30 s deadline, decode, reply)  *)
(*   SpecAnalyze  TerminalMCPServer.analyze_command applied to commands    *)
(*                built from a small vocabulary                            *)
(*   SpecPoller   check_mcp_servers.main: one check_server call per        *)
(*                configured server, then print_results                    *)
(***************************************************************************)
EXTENDS Integers, Sequences, FiniteSets, TLC

VARIABLES
    \* ---- terminal-mcp.py: do_POST / execute_command ----
    pc,          \* position of the request handler
    req,         \* the request being handled
    args,        \* the arguments execute_command was called with
    proc,        \* the subprocess (the shell): "none", "running", "exited", "reaped"
    pipes,       \* its stdout/stderr pipes: "none", "open", "closed"
    elapsed,     \* time units since communicate() started waiting
    exitCode,    \* the exit code of a subprocess that exited by itself
    rawOut,      \* bytes the subprocess wrote to stdout
    rawErr,      \* bytes the subprocess wrote to stderr
    outcome,     \* how subprocess.run ended: "completed", "decode_failure",
                 \* "timeout", "launch_failure"
    result,      \* what execute_command returned (or raised)
    fault,       \* the exception that escaped do_POST, if any
    responses,   \* the responses written for the current request
    invocations, \* calls of execute_command made for the current request
    spawns,      \* subprocesses started for the current request
    handled,     \* requests handled so far
    \* ---- terminal-mcp.py: analyze_command ----
    acmd,        \* the command given to analyze_command
    actx,        \* the context given to analyze_command
    aresult,     \* what analyze_command returned
    \* ---- check_mcp_servers.py ----
    net,         \* per server: what its /health request met
    results,     \* per server: what check_server returned
    printed      \* the summary print_results printed

serverVars  == <<pc, req, args, proc, pipes, elapsed, exitCode, rawOut, rawErr, outcome,
                 result, fault, responses, invocations, spawns, handled>>
analyzeVars == <<acmd, actx, aresult>>
pollerVars  == <<net, results, printed>>
vars        == <<serverVars, analyzeVars, pollerVars>>

-----------------------------------------------------------------------------
(* Bounds of the model *)

MaxRequests == 2     \* requests the server handles in one run
MaxExitCode == 2     \* the subprocess exits with a code in 0..MaxExitCode
MaxWords    == 3     \* words in a command given to analyze_command

-----------------------------------------------------------------------------
(* Python values and exceptions *)

PyNone   == [t |-> "none"]
PyStr(s) == [t |-> "str", s |-> s]
PyInt(n) == [t |-> "int", n |-> n]
Absent   == [t |-> "absent"]          \* a key that the JSON object does not hold

\* bool(v): None, '' and 0 are falsy
Truthy(v) ==
    CASE v.t = "none" -> FALSE
      [] v.t = "str"  -> v.s # ""
      [] v.t = "int"  -> v.n # 0
      [] OTHER        -> TRUE

\* the direct base class of each exception class the model raises
Base(cls) ==
    CASE cls = "FileNotFoundError"  -> "OSError"
      [] cls = "BlockingIOError"    -> "OSError"
      [] cls = "OSError"            -> "Exception"
      [] cls = "TypeError"          -> "Exception"
      [] cls = "AttributeError"     -> "Exception"
      [] cls = "UnicodeDecodeError" -> "ValueError"
      [] cls = "JSONDecodeError"    -> "ValueError"
      [] cls = "ValueError"         -> "Exception"
      [] cls = "TimeoutExpired"     -> "SubprocessError"
      [] cls = "SubprocessError"    -> "Exception"
      [] cls = "Exception"          -> "BaseException"
      [] OTHER                      -> "object"

RECURSIVE IsSubclass(_, _)
IsSubclass(cls, of) ==
    IF cls = of THEN TRUE
    ELSE IF cls \in {"BaseException", "object"} THEN FALSE
    ELSE IsSubclass(Base(cls), of)

Exc(cls, msg) == [cls |-> cls, msg |-> msg]
NoExc         == [cls |-> "none", msg |-> ""]

-----------------------------------------------------------------------------
(* text=True: the captured bytes are decoded as UTF-8 (errors='strict') and  *)
(* newlines are translated, as Popen.communicate does for a text-mode pipe.  *)

IsCont(b) == b >= 128 /\ b <= 191

\* continuation bytes that follow lead byte b; -1 when b cannot start a character
Need(b) ==
    CASE b < 128               -> 0
      [] b >= 194 /\ b <= 223  -> 1
      [] b >= 224 /\ b <= 239  -> 2
      [] b >= 240 /\ b <= 244  -> 3
      [] OTHER                 -> -1

\* the range the second byte of a character must lie in (overlongs, surrogates)
SecondOk(b0, b1) ==
    CASE b0 = 224 -> b1 >= 160 /\ b1 <= 191
      [] b0 = 237 -> b1 >= 128 /\ b1 <= 159
      [] b0 = 240 -> b1 >= 144 /\ b1 <= 191
      [] b0 = 244 -> b1 >= 128 /\ b1 <= 143
      [] OTHER    -> IsCont(b1)

CodePoint(ch) ==
    CASE Len(ch) = 1 -> ch[1]
      [] Len(ch) = 2 -> (ch[1] - 192) * 64 + (ch[2] - 128)
      [] Len(ch) = 3 -> (ch[1] - 224) * 4096 + (ch[2] - 128) * 64 + (ch[3] - 128)
      [] OTHER       -> (ch[1] - 240) * 262144 + (ch[2] - 128) * 4096
                          + (ch[3] - 128) * 64 + (ch[4] - 128)

RECURSIVE Utf8Decode(_)
\* [ok, text]: text is the sequence of code points; ok is FALSE where
\* bytes.decode('utf-8') raises UnicodeDecodeError
Utf8Decode(bs) ==
    IF bs = <<>> THEN [ok |-> TRUE, text |-> <<>>]
    ELSE LET n == Need(Head(bs)) IN
         IF \/ n < 0
            \/ Len(bs) < n + 1
            \/ \E i \in 2..(n + 1) : ~IsCont(bs[i])
            \/ (n >= 1 /\ ~SecondOk(bs[1], bs[2]))
         THEN [ok |-> FALSE, text |-> <<>>]
         ELSE LET rest == Utf8Decode(SubSeq(bs, n + 2, Len(bs))) IN
              [ok   |-> rest.ok,
               text |-> IF rest.ok THEN <<CodePoint(SubSeq(bs, 1, n + 1))>> \o rest.text
                        ELSE <<>>]

RECURSIVE TranslateNewlines(_)
\* universal newlines: "\r\n" and "\r" become "\n"
TranslateNewlines(t) ==
    IF t = <<>> THEN <<>>
    ELSE IF Head(t) = 13
         THEN IF Len(t) >= 2 /\ t[2] = 10
              THEN <<10>> \o TranslateNewlines(SubSeq(t, 3, Len(t)))
              ELSE <<10>> \o TranslateNewlines(Tail(t))
         ELSE <<Head(t)>> \o TranslateNewlines(Tail(t))

-----------------------------------------------------------------------------
(* TerminalMCPServer.execute_command *)

TIMEOUT == 30

Return(v) == [kind |-> "return", value |-> v]
Raise(e)  == [kind |-> "raise", exc |-> e]
NoResult  == [kind |-> "none"]

ServiceCwd == "/srv"
ExistingDirs == {ServiceCwd, "/tmp"}

\* cwd or os.getcwd()
EffectiveCwd(cwd) == IF Truthy(cwd) THEN cwd.s ELSE ServiceCwd

\* what Popen(command, shell=True, cwd=...) can do: start /bin/sh -c command, or raise
PopenOutcomes(command, cwd) ==
    IF command.t # "str"
    THEN {Raise(Exc("TypeError", "'int' object is not iterable"))}
    ELSE IF EffectiveCwd(cwd) \notin ExistingDirs
    THEN {Raise(Exc("FileNotFoundError", "[Errno 2] No such file or directory"))}
    ELSE {Return("spawned"),
          Raise(Exc("BlockingIOError", "[Errno 11] Resource temporarily unavailable"))}

\* the deadline check of communicate(timeout=30)
Expired(t) == t >= TIMEOUT

\* communicate() of a subprocess that exited with code rc: the CompletedProcess,
\* or the UnicodeDecodeError of a stream that is not UTF-8
RunCompleted(rc, out, err) ==
    LET o == Utf8Decode(out)
        e == Utf8Decode(err)
    IN  IF o.ok /\ e.ok
        THEN Return([returncode |-> rc,
                     stdout     |-> TranslateNewlines(o.text),
                     stderr     |-> TranslateNewlines(e.text)])
        ELSE Raise(Exc("UnicodeDecodeError", "'utf-8' codec can't decode byte"))

\* subprocess.run on the deadline: process.kill(); process.wait(); raise
RunTimedOut == Raise(Exc("TimeoutExpired", "Command timed out after 30 seconds"))

\* the subprocess left as it was when the deadline passed
ProcLeftAsIs(p) == p

\* the subprocess once subprocess.run has handled the deadline: kill(), wait()
ProcAfterTimeout(p) == "reaped"

\* except clauses that catch the timeout and OSError only
ExecuteExceptOSErrorOnly(exc) ==
    IF IsSubclass(exc.cls, "TimeoutExpired")
    THEN Return([success |-> FALSE, error |-> "Command timed out"])
    ELSE IF IsSubclass(exc.cls, "OSError")
    THEN Return([success |-> FALSE, error |-> exc.msg])
    ELSE Raise(exc)

\* the except clauses of execute_command
ExecuteExcept(exc) ==
    IF IsSubclass(exc.cls, "TimeoutExpired")
    THEN Return([success |-> FALSE, error |-> "Command timed out"])
    ELSE IF IsSubclass(exc.cls, "Exception")
    THEN Return([success |-> FALSE, error |-> exc.msg])
    ELSE Raise(exc)

\* the try body of execute_command, given how subprocess.run ended
ExecuteTry(run) ==
    IF run.kind = "return"
    THEN Return([success     |-> run.value.returncode = 0,
                 output      |-> run.value.stdout,
                 error       |-> run.value.stderr,
                 return_code |-> run.value.returncode])
    ELSE ExecuteExcept(run.exc)

-----------------------------------------------------------------------------
(* MCPHandler.do_POST: the requests, and the steps of handling one *)

ExecutePath == "/mcp/execute"
Paths       == {ExecutePath, "/mcp/analyze"}

CommandValues == {Absent, PyStr(""), PyStr("ls"), PyInt(5)}
CwdValues     == {Absent, PyStr(""), PyStr("/tmp"), PyStr("/nonexistent")}

\* the request body: not JSON at all, JSON that is no object, or a JSON object
Bodies ==
    {[kind |-> "badjson"], [kind |-> "nonobject"]}
    \cup {[kind |-> "object", command |-> c, cwd |-> w] :
            c \in CommandValues, w \in CwdValues}

Requests == {[path |-> p, body |-> b] : p \in Paths, b \in Bodies}

NoReq  == [path |-> "", body |-> [kind |-> "none"]]
NoArgs == [command |-> PyNone, cwd |-> PyNone]

\* dict.get(key, default)
Get(obj, key, default) == IF obj[key] = Absent THEN default ELSE obj[key]

\* what the subprocess may write to its pipes
OutSamples == {<<>>, <<104, 105, 10>>, <<97, 13, 10>>, <<195, 169>>, <<255>>}
ErrSamples == {<<>>, <<101, 114, 114>>, <<195>>}
ExitCodes  == 0..MaxExitCode

InitServer ==
    /\ pc = "idle"
    /\ req = NoReq
    /\ args = NoArgs
    /\ proc = "none"
    /\ pipes = "none"
    /\ elapsed = 0
    /\ exitCode = -1
    /\ rawOut = <<>>
    /\ rawErr = <<>>
    /\ outcome = "none"
    /\ result = NoResult
    /\ fault = NoExc
    /\ responses = <<>>
    /\ invocations = 0
    /\ spawns = 0
    /\ handled = 0

\* a new request arrives at the (single-threaded) HTTPServer
Accept(r) ==
    /\ pc \in {"idle", "done"}
    /\ handled < MaxRequests
    /\ handled' = handled + 1
    /\ req' = r
    /\ proc' = "none"
    /\ pipes' = "none"
    /\ elapsed' = 0
    /\ exitCode' = -1
    /\ rawOut' = <<>>
    /\ rawErr' = <<>>
    /\ outcome' = "none"
    /\ result' = NoResult
    /\ responses' = <<>>
    /\ spawns' = 0

\* do_POST for a path other than /mcp/execute: the if is false, nothing is sent
do_POST_other_path ==
    \E r \in Requests :
        /\ r.path # ExecutePath
        /\ Accept(r)
        /\ pc' = "done"
        /\ args' = NoArgs
        /\ fault' = NoExc
        /\ invocations' = 0
        /\ UNCHANGED <<analyzeVars, pollerVars>>

\* do_POST whose body json.loads rejects, or whose JSON value has no .get
do_POST_bad_body ==
    \E r \in Requests :
        /\ r.path = ExecutePath
        /\ r.body.kind # "object"
        /\ Accept(r)
        /\ pc' = "done"
        /\ args' = NoArgs
        /\ fault' = IF r.body.kind = "badjson"
                    THEN Exc("JSONDecodeError", "Expecting value")
                    ELSE Exc("AttributeError", "'list' object has no attribute 'get'")
        /\ invocations' = 0
        /\ UNCHANGED <<analyzeVars, pollerVars>>

\* do_POST up to the call execute_command(data.get('command', ''), data.get('cwd'))
do_POST_execute ==
    \E r \in Requests :
        /\ r.path = ExecutePath
        /\ r.body.kind = "object"
        /\ Accept(r)
        /\ pc' = "launch"
        /\ args' = [command |-> Get(r.body, "command", PyStr("")),
                    cwd     |-> Get(r.body, "cwd", PyNone)]
        /\ fault' = NoExc
        /\ invocations' = 1
        /\ UNCHANGED <<analyzeVars, pollerVars>>

\* subprocess.run starts the shell, or Popen raises and execute_command returns
Popen ==
    /\ pc = "launch"
    /\ \E o \in PopenOutcomes(args.command, args.cwd) :
          IF o.kind = "return"
          THEN /\ pc' = "waiting"
               /\ proc' = "running"
               /\ pipes' = "open"
               /\ spawns' = spawns + 1
               /\ UNCHANGED <<outcome, result>>
          ELSE /\ pc' = "returned"
               /\ outcome' = "launch_failure"
               /\ result' = ExecuteTry(o)
               /\ UNCHANGED <<proc, pipes, spawns>>
    /\ UNCHANGED <<req, args, elapsed, exitCode, rawOut, rawErr, fault, responses,
                   invocations, handled, analyzeVars, pollerVars>>

\* communicate() has what it waits for: with capture_output=True that is the end
\* of both pipes and the exit of the subprocess
Collectable == pc = "waiting" /\ proc = "exited" /\ pipes = "closed"

\* a unit of time passes while communicate() waits
Tick ==
    /\ pc = "waiting"
    /\ ~Collectable
    /\ ~Expired(elapsed)
    /\ elapsed' = elapsed + 1
    /\ UNCHANGED <<pc, req, args, proc, pipes, exitCode, rawOut, rawErr, outcome,
                   result, fault, responses, invocations, spawns, handled,
                   analyzeVars, pollerVars>>

\* the subprocess (the shell) exits by itself before the deadline; its pipes
\* reach their end then, unless a process it started in the background
\* ("cmd &") has inherited them and is still running
ProcessExits ==
    /\ pc = "waiting"
    /\ proc = "running"
    /\ ~Expired(elapsed)
    /\ \E rc \in ExitCodes, o \in OutSamples, e \in ErrSamples :
          /\ exitCode' = rc
          /\ rawOut' = o
          /\ rawErr' = e
    /\ proc' = "exited"
    /\ pipes' \in {"closed", "open"}
    /\ UNCHANGED <<pc, req, args, elapsed, outcome, result, fault, responses,
                   invocations, spawns, handled, analyzeVars, pollerVars>>

\* the background processes that held the pipes exit before the deadline
PipesClose ==
    /\ pc = "waiting"
    /\ proc = "exited"
    /\ pipes = "open"
    /\ ~Expired(elapsed)
    /\ pipes' = "closed"
    /\ UNCHANGED <<pc, req, args, proc, elapsed, exitCode, rawOut, rawErr, outcome,
                   result, fault, responses, invocations, spawns, handled,
                   analyzeVars, pollerVars>>

\* communicate() collects the exited subprocess; execute_command returns
RunReturns ==
    /\ Collectable
    /\ proc' = "reaped"
    /\ outcome' = IF RunCompleted(exitCode, rawOut, rawErr).kind = "return"
                  THEN "completed" ELSE "decode_failure"
    /\ result' = ExecuteTry(RunCompleted(exitCode, rawOut, rawErr))
    /\ pc' = "returned"
    /\ UNCHANGED <<req, args, pipes, elapsed, exitCode, rawOut, rawErr, fault,
                   responses, invocations, spawns, handled, analyzeVars, pollerVars>>

\* the deadline passes before communicate() has what it waits for: the subprocess
\* is killed and waited for, the pipes are closed, execute_command returns
RunTimesOut ==
    /\ pc = "waiting"
    /\ ~Collectable
    /\ Expired(elapsed)
    /\ proc' = ProcAfterTimeout(proc)
    /\ pipes' = "closed"
    /\ outcome' = "timeout"
    /\ result' = ExecuteTry(RunTimedOut)
    /\ pc' = "returned"
    /\ UNCHANGED <<req, args, elapsed, exitCode, rawOut, rawErr, fault, responses,
                   invocations, spawns, handled, analyzeVars, pollerVars>>

\* the rest of do_POST: send_response(200), headers, json.dumps(result)
do_POST_respond ==
    /\ pc = "returned"
    /\ pc' = "done"
    /\ IF result.kind = "return"
       THEN /\ responses' = Append(responses, [status |-> 200, body |-> result.value])
            /\ UNCHANGED fault
       ELSE /\ fault' = result.exc
            /\ UNCHANGED responses
    /\ UNCHANGED <<req, args, proc, pipes, elapsed, exitCode, rawOut, rawErr, outcome,
                   result, invocations, spawns, handled, analyzeVars, pollerVars>>

-----------------------------------------------------------------------------
(* TerminalMCPServer.analyze_command.  A command is a string, modelled as   *)
(* the sequence of its characters, so that `x in command` is the substring  *)
(* test Python makes.                                                       *)

Vocabulary ==
    { <<"g", "i", "t">>,
      <<"p", "u", "s", "h">>,
      <<"r", "m">>,
      <<"-", "r", "f">>,
      <<"s", "u", "d", "o">>,
      <<"l", "s">>,
      <<"p", "e", "r", "f", "o", "r", "m">> }

RECURSIVE Join(_)
\* " ".join(words)
Join(ws) ==
    IF ws = <<>> THEN <<>>
    ELSE IF Len(ws) = 1 THEN ws[1]
    ELSE ws[1] \o <<" ">> \o Join(Tail(ws))

WordLists == UNION {[1..n -> Vocabulary] : n \in 0..MaxWords}
Commands  == {Join(ws) : ws \in WordLists}
Contexts  == {<<>>, <<"cwd">>}

\* needle in hay
Contains(needle, hay) ==
    \E i \in 1..(Len(hay) - Len(needle) + 1) :
        SubSeq(hay, i, i + Len(needle) - 1) = needle

ForcePushAdvice  == "Consider using 'git push --force-with-lease' for safer force pushes"
DestructiveWarn  == "Warning: Destructive command detected"
SudoAdvice       == "Consider if sudo is really necessary"

\* the three conditions of the if/elif chain
MatchesPush(command) ==
    Contains(<<"g", "i", "t">>, command) /\ Contains(<<"p", "u", "s", "h">>, command)
MatchesDelete(command) ==
    Contains(<<"r", "m">>, command) /\ Contains(<<"-", "r", "f">>, command)
MatchesSudo(command) ==
    Contains(<<"s", "u", "d", "o">>, command)

\* the chain written with three independent ifs
SuggestionsAllRules(command) ==
    (IF MatchesPush(command) THEN <<ForcePushAdvice>> ELSE <<>>)
    \o (IF MatchesDelete(command) THEN <<DestructiveWarn>> ELSE <<>>)
    \o (IF MatchesSudo(command) THEN <<SudoAdvice>> ELSE <<>>)

\* the chain without its last branch
SuggestionsNoSudo(command) ==
    IF MatchesPush(command) THEN <<ForcePushAdvice>>
    ELSE IF MatchesDelete(command) THEN <<DestructiveWarn>>
    ELSE <<>>

\* the suggestions list the if/elif chain builds
Suggestions(command) ==
    IF MatchesPush(command) THEN <<ForcePushAdvice>>
    ELSE IF MatchesDelete(command) THEN <<DestructiveWarn>>
    ELSE IF MatchesSudo(command) THEN <<SudoAdvice>>
    ELSE <<>>

\* the length test off by one
RiskLevelOffByOne(suggestions) == IF Len(suggestions) <= 1 THEN "low" ELSE "medium"

\* "low" if len(suggestions) == 0 else "medium"
RiskLevel(suggestions) == IF Len(suggestions) = 0 THEN "low" ELSE "medium"

analyze_command(command, context) ==
    [command     |-> command,
     type        |-> "analysis",
     suggestions |-> Suggestions(command),
     risk_level  |-> RiskLevel(Suggestions(command))]

NoAnalysis == [type |-> "none"]

InitAnalyze ==
    /\ acmd \in Commands
    /\ actx \in Contexts
    /\ aresult = NoAnalysis

InitAnalyzeIdle ==
    /\ acmd = <<>>
    /\ actx = <<>>
    /\ aresult = NoAnalysis

Analyze ==
    /\ aresult = NoAnalysis
    /\ aresult' = analyze_command(acmd, actx)
    /\ UNCHANGED <<acmd, actx, serverVars, pollerVars>>

-----------------------------------------------------------------------------
(* check_mcp_servers.py *)

MCP_SERVERS ==
    << [name |-> "Memory",     port |-> 13000],
       [name |-> "Filesystem", port |-> 13001],
       [name |-> "Terminal",   port |-> 13002],
       [name |-> "Kubectl",    port |-> 13003],
       [name |-> "Helm",       port |-> 13004],
       [name |-> "Minikube",   port |-> 13005] >>

Servers == 1..Len(MCP_SERVERS)

\* what GET /health on a port can meet
NetOutcomes ==
    { [kind |-> "refused"],                       \* ConnectionRefusedError
      [kind |-> "timeout"],                       \* socket.timeout
      [kind |-> "closed"],                        \* RemoteDisconnected
      [kind |-> "response", status |-> 200, json |-> TRUE],
      [kind |-> "response", status |-> 200, json |-> FALSE],
      [kind |-> "response", status |-> 500, json |-> FALSE] }

Pending == [kind |-> "pending"]

\* f'HTTP {response.status} {response.reason}'
HttpError(status) ==
    CASE status = 500 -> "HTTP 500 Internal Server Error"
      [] status = 404 -> "HTTP 404 Not Found"
      [] OTHER        -> "HTTP"

\* the try body of check_server: the result it returns, or the exception raised
CheckTry(server, met) ==
    CASE met.kind = "refused" -> Raise(Exc("ConnectionRefusedError", "[Errno 111] Connection refused"))
      [] met.kind = "timeout" -> Raise(Exc("socket.timeout", "timed out"))
      [] met.kind = "closed"  ->
            Raise(Exc("RemoteDisconnected", "Remote end closed connection without response"))
      [] OTHER ->
            IF met.status = 200
            THEN IF met.json
                 THEN Return([name |-> server.name, status |-> "running",
                              status_code |-> met.status, response |-> "json"])
                 ELSE Return([name |-> server.name, status |-> "error",
                              error |-> "Invalid JSON response"])
            ELSE Return([name |-> server.name, status |-> "error",
                         error |-> HttpError(met.status)])

\* except clauses without the final catch-all
CheckExceptNoCatchAll(server, exc) ==
    IF exc.cls = "ConnectionRefusedError"
    THEN Return([name |-> server.name, status |-> "down", error |-> "Connection refused"])
    ELSE IF exc.cls = "socket.timeout"
    THEN Return([name |-> server.name, status |-> "timeout", error |-> "Request timed out"])
    ELSE Raise(exc)

\* the except clauses of check_server
CheckExcept(server, exc) ==
    IF exc.cls = "ConnectionRefusedError"
    THEN Return([name |-> server.name, status |-> "down", error |-> "Connection refused"])
    ELSE IF exc.cls = "socket.timeout"
    THEN Return([name |-> server.name, status |-> "timeout", error |-> "Request timed out"])
    ELSE Return([name |-> server.name, status |-> "error", error |-> exc.msg])

check_server(server, met) ==
    LET r == CheckTry(server, met)
    IN  IF r.kind = "return" THEN r ELSE CheckExcept(server, r.exc)

NotPrinted == [kind |-> "none"]

RECURSIVE CountRunning(_)
\* sum(1 for r in results if r['status'] == 'running')
CountRunning(rs) ==
    IF rs = <<>> THEN 0
    ELSE (IF Head(rs).status = "running" THEN 1 ELSE 0) + CountRunning(Tail(rs))

\* print_results: one row per result, then the summary
print_results(rs) ==
    [kind    |-> "report",
     rows    |-> rs,
     running |-> CountRunning(rs),
     total   |-> Len(rs)]

InitPollerIdle ==
    /\ net = [i \in Servers |-> Pending]
    /\ results = [i \in Servers |-> NoResult]
    /\ printed = NotPrinted

\* one worker thread runs check_server on one server
CheckServer ==
    \E i \in Servers, met \in NetOutcomes :
        /\ results[i] = NoResult
        /\ net' = [net EXCEPT ![i] = met]
        /\ results' = [results EXCEPT ![i] = check_server(MCP_SERVERS[i], met)]
        /\ UNCHANGED <<printed, serverVars, analyzeVars>>

\* main: list(executor.map(...)) re-raises what a call raised; else print_results
Main ==
    /\ printed = NotPrinted
    /\ \A i \in Servers : results[i] # NoResult
    /\ printed' =
         IF \E i \in Servers : results[i].kind = "raise"
         THEN [kind |-> "aborted"]
         ELSE print_results([i \in Servers |-> results[i].value])
    /\ UNCHANGED <<net, results, serverVars, analyzeVars>>

-----------------------------------------------------------------------------
(* Specifications *)

Init == InitServer /\ InitAnalyzeIdle /\ InitPollerIdle

Next ==
    \/ do_POST_other_path
    \/ do_POST_bad_body
    \/ do_POST_execute
    \/ Popen
    \/ Tick
    \/ ProcessExits
    \/ PipesClose
    \/ RunReturns
    \/ RunTimesOut
    \/ do_POST_respond

Spec == Init /\ [][Next]_vars

AnalyzeInit == InitServer /\ InitAnalyze /\ InitPollerIdle
AnalyzeNext == Analyze
SpecAnalyze == AnalyzeInit /\ [][AnalyzeNext]_vars

PollerNext == CheckServer \/ Main
SpecPoller == Init /\ [][PollerNext]_vars

-----------------------------------------------------------------------------
(* Properties of execute_command and do_POST (Spec) *)

\* execute_command has finished for the current request
Finished == pc \in {"returned", "done"} /\ invocations = 1

\* the dict the except TimeoutExpired clause returns
IsTimeoutResult(v) ==
    /\ DOMAIN v = {"success", "error"}
    /\ ~v.success
    /\ v.error = "Command timed out"

\* the subprocess ran to completion: it exited by itself, with exitCode
RanToCompletion == spawns = 1 /\ exitCode # -1

\* C1: the returned result has success = true iff the subprocess ran to
\* completion with exit code 0; whenever the subprocess completes, return_code
\* is present and equals the exit code; on a timeout or a launch failure
\* success is false, return_code is absent and error is populated.
C1_ResultContract ==
    (Finished /\ result.kind = "return") =>
        LET v == result.value IN
        /\ v.success <=> (RanToCompletion /\ exitCode = 0)
        /\ RanToCompletion =>
              ("return_code" \in DOMAIN v /\ v.return_code = exitCode)
        /\ outcome \in {"timeout", "launch_failure"} =>
              /\ ~v.success
              /\ "return_code" \notin DOMAIN v
              /\ "error" \in DOMAIN v
              /\ v.error # ""

\* C2: execute_command waits until the subprocess exits or 30 time units have
\* passed, whichever comes first, and always returns (while it waits its next
\* step is enabled and the time waited never passes the deadline); a subprocess
\* that has not exited by the deadline yields the timeout result (success
\* false, error "Command timed out", no return_code, no output), and one that
\* exits before the deadline never yields it.
C2_BoundedWait ==
    /\ pc = "launch" => ENABLED Popen
    /\ pc = "waiting" => (Collectable \/ ENABLED Tick \/ ENABLED RunTimesOut)
    /\ pc = "waiting" => elapsed <= TIMEOUT
    /\ (Finished /\ spawns = 1) =>
          /\ result.kind = "return"
          /\ ~RanToCompletion =>
                /\ elapsed = TIMEOUT
                /\ IsTimeoutResult(result.value)
                /\ DOMAIN result.value \cap {"output", "return_code"} = {}
          /\ RanToCompletion => ~IsTimeoutResult(result.value)

\* C3: execute_command never raises: every call ends in a returned dict, and a
\* failure to launch the process is returned as success = false with a
\* non-empty error.
C3_NoEscape ==
    /\ result.kind # "raise"
    /\ (pc = "done" /\ invocations = 1) => fault = NoExc
    /\ outcome = "launch_failure" =>
          /\ result.kind = "return"
          /\ ~result.value.success
          /\ result.value.error # ""
          /\ spawns = 0

C3_Witness ==
    /\ pc = "returned"
    /\ outcome = "launch_failure"
    /\ args.command = PyInt(5)
    /\ result.kind = "return"

\* a request the specification calls malformed
Malformed(r) ==
    \/ r.body.kind # "object"
    \/ (r.body.kind = "object" /\ r.body.command = Absent)

\* C7: a malformed request to the execution endpoint (no command field, or a
\* body that is not a JSON object) is answered with exactly one response that
\* is a rejection, not an execution result, and no command is executed for it.
C7_MalformedRejected ==
    (pc = "done" /\ req.path = ExecutePath /\ Malformed(req)) =>
        /\ invocations = 0
        /\ spawns = 0
        /\ Len(responses) = 1
        /\ responses[1].status # 200

\* C9: every request handled ends with exactly one call of the component and
\* exactly one response, and runs at most one command.
C9_OneCallOneResponse ==
    pc = "done" => (invocations = 1 /\ Len(responses) = 1 /\ spawns <= 1)

\* C10: when execute_command has returned, the subprocess it started is no
\* longer running: it has exited and been waited for.
C10_Reaped ==
    Finished => (proc # "running" /\ proc # "exited" /\ (spawns >= 1 => proc = "reaped"))

C10_Witness ==
    /\ pc = "done"
    /\ outcome = "timeout"
    /\ spawns = 1
    /\ proc = "reaped"

-----------------------------------------------------------------------------
(* Properties of analyze_command (SpecAnalyze) *)

Analyzed == aresult.type = "analysis"

\* the rules in the order the chain tests them
Rules ==
    << [matches |-> MatchesPush(acmd),   text |-> ForcePushAdvice, severity |-> "medium"],
       [matches |-> MatchesDelete(acmd), text |-> DestructiveWarn, severity |-> "medium"],
       [matches |-> MatchesSudo(acmd),   text |-> SudoAdvice,      severity |-> "medium"] >>

Matching == {i \in DOMAIN Rules : Rules[i].matches}

RECURSIVE TextsFrom(_)
\* the texts of the matching rules numbered i and above, in order
TextsFrom(i) ==
    IF i > Len(Rules) THEN <<>>
    ELSE (IF Rules[i].matches THEN <<Rules[i].text>> ELSE <<>>) \o TextsFrom(i + 1)

C5_LowIffEmpty ==
    Analyzed => (aresult.risk_level = "low" <=> aresult.suggestions = <<>>)

C5_Witness ==
    /\ Analyzed
    /\ aresult.suggestions # <<>>
    /\ aresult.risk_level = "medium"
    /\ actx # <<>>

Rank(level) == CASE level = "low" -> 0 [] level = "medium" -> 1 [] OTHER -> 2

\* the highest severity among the matching rules, "low" when there is none
MaxSeverity ==
    IF Matching = {} THEN "low"
    ELSE Rules[CHOOSE i \in Matching :
                 \A j \in Matching : Rank(Rules[j].severity) <= Rank(Rules[i].severity)].severity

\* C6: risk_level is the highest severity among the rules the command matches
\* (force-push medium, recursive forced delete medium, privilege escalation
\* medium), "low" when it matches none, and always one of low, medium, high.
C6_MaxSeverity ==
    Analyzed =>
        /\ aresult.risk_level = MaxSeverity
        /\ aresult.risk_level \in {"low", "medium", "high"}

C6_Witness ==
    /\ Analyzed
    /\ Matching = {3}
    /\ aresult.risk_level = "medium"

-----------------------------------------------------------------------------
(* Properties of the status checker (SpecPoller) *)

\* the four failures the poller must tell apart
FailureClass(met) ==
    CASE met.kind = "refused" -> "refused"
      [] met.kind = "timeout" -> "timeout"
      [] met.kind = "response" /\ met.status # 200 -> "bad_status"
      [] met.kind = "response" /\ met.status = 200 /\ ~met.json -> "bad_body"
      [] OTHER -> "other"

FourFailures == {"refused", "timeout", "bad_status", "bad_body"}

\* what a reported row says about the failure
Category(row) == <<row.status, row.error>>

====
